---------------------------- MODULE Spec2Model ----------------------------
(***************************************************************************)
(* State-machine model of the scripted playback widgets of the Docker      *)
(* teaching site:                                                          *)
(*   - the guarded terminals: Terminal (components/Terminal), DockerVolumes*)
(*     and the second DockerNetworks implementation (isExecuting +         *)
(*     commandHistory);                                                    *)
(*   - the first DockerNetworks implementation (runningCommand +           *)
(*     selectedOutput);                                                    *)
(*   - the log viewer (DockerLogs + LogViewer);                            *)
(*   - the image gallery (EnhancedImageGallery) and the category tabs and  *)
(*     copy buttons of the command widgets.                                *)
(*                                                                         *)
(* React state is the model's state.  One action is one event-loop task: a *)
(* click handler, or the continuation of an async function that a timer    *)
(* resumes (all state updates of one continuation are applied together).   *)
(***************************************************************************)
EXTENDS Integers, Sequences, FiniteSets, TLC

(***************************************************************************)
(* Bounds of the model.                                                    *)
(***************************************************************************)
\* number of records of the static command catalog
NumCommands == 4
\* accepted executions between two clears (length of the visible history)
MaxHistory == 2
\* executions of the unguarded network terminal that are in flight at once
MaxNetPlaybacks == 2
\* number of intervals of DockerCompose that are active at once
MaxIntervals == 2
\* length of the search text typed into the log viewer and the gallery
MaxTermLen == 1
\* number of records of the image catalog
MaxCatalog == 3

VARIABLES
  widget,          \* which guarded terminal this instance is
  selectedCommand, \* Terminal only: useState(0)
  isExecuting,     \* the busy flag: useState(false)
  outputLines,     \* Terminal only: useState([]), never written but by clear
  commandHistory,  \* useState([]): sequence of [command, output]
  playbacks,       \* the invocations of the async executeCommand: the local
                   \* variables and the position of each
  crashed,         \* a state updater threw: React unmounted the tree
  lastOp,          \* the event handled by the last step (history variable)
  toast,           \* the notifications the last step handed to sonner's toast
  \* first DockerNetworks implementation
  runningCommand,  \* useState(null): <<>> for null, else <<command text>>
  selectedOutput,  \* useState([])
  netPlaybacks,    \* the invocations of its async executeCommand in flight
  \* DockerLogs and its LogViewer
  logSelected,     \* selectedCommand: index of the record in logCommands
  isFollowing,     \* useState(false)
  logCategory,     \* selectedCategory: useState('all')
  filteredLogs,    \* LogViewer: useState(logs)
  levelFilter,     \* LogViewer: useState('all')
  searchTerm,      \* LogViewer: useState('')
  effectPending,   \* a dependency of the LogViewer effect changed in the
                   \* last render and the effect has not run yet
  clipboardWrite,  \* the navigator.clipboard.writeText call of the last
                   \* step and how its promise settles: <<>> or <<[text, ok]>>
  \* DockerVolumes and the second DockerNetworks implementation
  selectedCategory,\* useState('all')
  records,         \* the record objects of the static catalog array
  \* EnhancedImageGallery
  dockerImages,    \* the static image catalog
  galleryCategory, \* selectedCategory: useState('All')
  gallerySearch,   \* searchTerm: useState('')
  selectedImage,   \* useState(null): <<>> for null, else <<image name>>
  shownImages,     \* filteredImages as the last render computed it
  \* DockerCompose (the animated implementation)
  animationStep,   \* useState(0)
  isRunning,       \* useState(false)
  highlightedLines,\* useState([])
  intervals,       \* the intervals runCompose started that are not cleared,
                   \* in the order in which their next ticks are due
  composeEffectPending \* animationStep changed in the last render and the
                   \* effect on animationStep has not run yet

termVars == <<selectedCommand, isExecuting, outputLines, commandHistory,
              playbacks, crashed>>

netVars == <<runningCommand, selectedOutput, netPlaybacks>>

logVars == <<logSelected, isFollowing, logCategory, filteredLogs, levelFilter,
             searchTerm, effectPending>>

\* the category tab and the catalog records of DockerVolumes and of the second
\* DockerNetworks implementation
catalogVars == <<selectedCategory, records>>

galleryVars == <<dockerImages, galleryCategory, gallerySearch, selectedImage,
                 shownImages>>

composeVars == <<animationStep, isRunning, highlightedLines, intervals,
                 composeEffectPending>>

vars == <<widget, lastOp, toast, clipboardWrite, termVars, netVars, logVars,
          catalogVars, galleryVars, composeVars>>

(***************************************************************************)
(* The static catalog.  Record k (0-based, as the index Terminal passes)   *)
(* has k output lines, so the catalog holds a command without output, and  *)
(* commands whose output repeats a line and has distinct lines.            *)
(***************************************************************************)
LineOf(k, j) == 10 * k + ((j + 1) \div 2)

commands ==
  [k \in 0..(NumCommands - 1) |->
     [command |-> k, output |-> [j \in 1..k |-> LineOf(k, j)]]]

GuardedWidgets == {"Terminal", "DockerVolumes", "DockerNetworks2"}

\* The category of the records of volumeCommands and of networkCommands, in
\* array order.  The records Terminal receives have no category.
recordCategories(w) ==
  IF w = "DockerVolumes"
    THEN <<"list", "create", "create", "inspect", "mount", "mount", "mount",
           "remove", "remove", "remove", "remove">>
  ELSE IF w = "DockerNetworks2"
    THEN <<"list", "create", "create", "inspect", "connect", "connect",
           "disconnect", "remove", "remove", "remove">>
  ELSE <<"none">>

\* The catalog array of widget w: the records of commands, with the category
\* the widget's catalog gives the record at that position.
catalog(w) ==
  [k \in DOMAIN commands |->
     [command |-> commands[k].command,
      output |-> commands[k].output,
      category |->
        recordCategories(w)[(k % Len(recordCategories(w))) + 1]]]

\* The category tabs the widget renders (Terminal renders none).
categories(w) ==
  IF w = "DockerVolumes"
    THEN {"all", "list", "create", "mount", "remove"}
  ELSE IF w = "DockerNetworks2"
    THEN {"all", "list", "create", "connect", "disconnect", "remove"}
  ELSE {}

\* filteredCommands, as a sequence of records: the whole array under 'all',
\* else Array.prototype.filter by category.
filteredCommands(list, category) ==
  LET inCategory(cmd) == cmd.category = category
  IN IF category = "all" THEN list ELSE SelectSeq(list, inCategory)

\* The catalog array as a sequence (the records in array order).
AsSeq(recs) == [n \in 1..Cardinality(DOMAIN recs) |-> recs[n - 1]]

\* The indices of the command cards the widget renders.
VisibleCommands ==
  LET shown == filteredCommands(AsSeq(records), selectedCategory)
  IN {k \in DOMAIN records : \E n \in DOMAIN shown : shown[n] = records[k]}

Prefix(s, n) == SubSeq(s, 1, n)

IsPrefix(s, t) == Len(s) <= Len(t) /\ s = Prefix(t, Len(s))

InFlight(p) == p.pc # "done"

PendingPlaybacks == {j \in DOMAIN playbacks : InFlight(playbacks[j])}

(***************************************************************************)
(* executeCommand up to its first await: the busy guard, setIsExecuting,   *)
(* setSelectedCommand (Terminal), the new history entry, and the start of  *)
(* the typing delay.  A playback record holds the invocation's locals      *)
(* (cmd, i, newOutput), its position pc, and three history fields: entry   *)
(* (index of the entry it created), cleared (clear was invoked since it    *)
(* was accepted) and appends (history updates it had applied).             *)
(***************************************************************************)
NewPlayback(commandIndex) ==
  [cmd |-> commandIndex, pc |-> "typing", i |-> 0, newOutput |-> <<>>,
   entry |-> Len(commandHistory) + 1, cleared |-> FALSE, appends |-> 0]

executeCommand_unguarded(commandIndex) ==
  /\ isExecuting' = TRUE
  /\ selectedCommand' =
       IF widget = "Terminal" THEN commandIndex ELSE selectedCommand
  /\ commandHistory' =
       Append(commandHistory,
              [command |-> records[commandIndex].command, output |-> <<>>])
  /\ playbacks' =
       Append(SelectSeq(playbacks, InFlight), NewPlayback(commandIndex))

executeCommand_selectsFirst(commandIndex) ==
  IF isExecuting
    THEN /\ selectedCommand' =
              IF widget = "Terminal" THEN commandIndex ELSE selectedCommand
         /\ UNCHANGED <<isExecuting, commandHistory, playbacks>>
    ELSE executeCommand_unguarded(commandIndex)

executeCommand_replacesHistory(commandIndex) ==
  IF isExecuting
    THEN UNCHANGED <<isExecuting, selectedCommand, commandHistory, playbacks>>
    ELSE /\ isExecuting' = TRUE
         /\ selectedCommand' =
              IF widget = "Terminal" THEN commandIndex ELSE selectedCommand
         /\ commandHistory' =
              <<[command |-> records[commandIndex].command, output |-> <<>>]>>
         /\ playbacks' =
              Append(SelectSeq(playbacks, InFlight),
                     [NewPlayback(commandIndex) EXCEPT !.entry = 1])

executeCommand_resetsOutputs(commandIndex) ==
  IF isExecuting
    THEN UNCHANGED <<isExecuting, selectedCommand, commandHistory, playbacks>>
    ELSE /\ isExecuting' = TRUE
         /\ selectedCommand' =
              IF widget = "Terminal" THEN commandIndex ELSE selectedCommand
         /\ commandHistory' =
              Append([e \in DOMAIN commandHistory |->
                        [commandHistory[e] EXCEPT !.output = <<>>]],
                     [command |-> records[commandIndex].command,
                      output |-> <<>>])
         /\ playbacks' =
              Append(SelectSeq(playbacks, InFlight), NewPlayback(commandIndex))

executeCommand_prepends(commandIndex) ==
  IF isExecuting
    THEN UNCHANGED <<isExecuting, selectedCommand, commandHistory, playbacks>>
    ELSE /\ isExecuting' = TRUE
         /\ selectedCommand' =
              IF widget = "Terminal" THEN commandIndex ELSE selectedCommand
         /\ commandHistory' =
              <<[command |-> records[commandIndex].command, output |-> <<>>]>>
                \o commandHistory
         /\ playbacks' =
              Append(SelectSeq(playbacks, InFlight),
                     [NewPlayback(commandIndex) EXCEPT !.entry = 1])

executeCommand(commandIndex) ==
  IF isExecuting
    THEN UNCHANGED <<isExecuting, selectedCommand, commandHistory, playbacks>>
    ELSE /\ isExecuting' = TRUE
         /\ selectedCommand' =
              IF widget = "Terminal" THEN commandIndex ELSE selectedCommand
         /\ commandHistory' =
              Append(commandHistory,
                     [command |-> records[commandIndex].command,
                      output |-> <<>>])
         /\ playbacks' =
              Append(SelectSeq(playbacks, InFlight), NewPlayback(commandIndex))

\* A click on a command's play button.
Execute ==
  \E k \in VisibleCommands :
    /\ ~crashed
    /\ Len(commandHistory) < MaxHistory
    /\ executeCommand(k)
    /\ lastOp' = [op |-> "execute", cmd |-> k]
    /\ toast' = <<>>
    /\ clipboardWrite' = <<>>
    /\ UNCHANGED <<widget, composeVars, outputLines, crashed, netVars,
                   logVars,
                   galleryVars, selectedCategory, records>>

(***************************************************************************)
(* clearTerminal: setCommandHistory([]) (and setOutputLines([]) in         *)
(* Terminal).  It neither touches isExecuting nor cancels a timer.         *)
(***************************************************************************)
MarkCleared(ps) == [j \in DOMAIN ps |-> [ps[j] EXCEPT !.cleared = TRUE]]

clearTerminal_resetsBusy ==
  /\ commandHistory' = <<>>
  /\ outputLines' = <<>>
  /\ isExecuting' = FALSE

clearTerminal_keepsHistory ==
  /\ commandHistory' = commandHistory
  /\ outputLines' = <<>>
  /\ isExecuting' = isExecuting

clearTerminal ==
  /\ commandHistory' = <<>>
  /\ outputLines' = <<>>
  /\ isExecuting' = isExecuting

\* A click on the Clear button.
Clear ==
  /\ ~crashed
  /\ clearTerminal
  /\ playbacks' = MarkCleared(playbacks)
  /\ lastOp' = [op |-> "clear", cmd |-> -1]
  /\ toast' = <<>>
  /\ clipboardWrite' = <<>>
  /\ UNCHANGED <<widget, composeVars, selectedCommand, crashed, netVars,
                 logVars,
                   galleryVars, selectedCategory, records>>

\* A click on a category tab: setSelectedCategory(category.id).
SelectCategory ==
  \E c \in categories(widget) :
    /\ ~crashed
    /\ selectedCategory' = c
    /\ lastOp' = [op |-> "category", cmd |-> -1]
    /\ toast' = <<>>
    /\ clipboardWrite' = <<>>
    /\ UNCHANGED <<widget, composeVars, termVars, netVars, logVars,
                   galleryVars, records>>

(***************************************************************************)
(* copyCommand: navigator.clipboard.writeText(command), whose promise is   *)
(* neither awaited nor caught, and then toast.success.  ok is the way the  *)
(* promise settles: resolved (the text is on the clipboard) or rejected.   *)
(***************************************************************************)
copyCommand_reportsFailure(command, ok) ==
  /\ clipboardWrite' = <<[text |-> command, ok |-> ok]>>
  /\ toast' =
       IF ok THEN <<[kind |-> "success",
                     message |-> "Command copied to clipboard!"]>>
             ELSE <<[kind |-> "error", message |-> "Failed to copy command"]>>

copyCommand(command, ok) ==
  /\ clipboardWrite' = <<[text |-> command, ok |-> ok]>>
  /\ toast' =
       <<[kind |-> "success", message |-> "Command copied to clipboard!"]>>

\* A click on the copy button of a command card.
Copy ==
  \E k \in VisibleCommands, ok \in BOOLEAN :
    /\ ~crashed
    /\ copyCommand(records[k].command, ok)
    /\ lastOp' = [op |-> "copy", cmd |-> k]
    /\ UNCHANGED <<widget, composeVars, termVars, netVars, logVars, catalogVars,
                   galleryVars>>

(***************************************************************************)
(* The setCommandHistory updater of the loop:                              *)
(*     updated = [...prev]; updated[updated.length - 1].output = [...out]  *)
(* It addresses the last entry of the history as it is when the update is  *)
(* applied.  On an empty history updated[-1] is undefined and the          *)
(* assignment throws a TypeError.                                          *)
(***************************************************************************)
UpdaterThrows_never(prev) == FALSE

UpdaterThrows(prev) == Len(prev) = 0

SetLastOutput_dedup(prev, out) ==
  [prev EXCEPT ![Len(prev)].output =
     IF Len(out) > 1 /\ out[Len(out)] = out[Len(out) - 1]
       THEN prev[Len(prev)].output
       ELSE out]

SetLastOutput_firstEntry(prev, out) == [prev EXCEPT ![1].output = out]

SetLastOutput(prev, out) == [prev EXCEPT ![Len(prev)].output = out]

(***************************************************************************)
(* The continuation the typing delay resumes (setTimeout 500): the loop    *)
(* test for i = 0.  A command without output falls through to              *)
(* setIsExecuting(false); otherwise the first per-line delay starts.       *)
(***************************************************************************)
afterTyping_endsBusy(j) ==
  LET p == playbacks[j]
      empty == Len(records[p.cmd].output) = 0
  IN /\ isExecuting' = IF ~crashed THEN FALSE ELSE isExecuting
     /\ playbacks' =
          [playbacks EXCEPT ![j].pc = IF empty THEN "done" ELSE "line"]
     /\ UNCHANGED <<commandHistory, crashed>>

afterTyping(j) ==
  LET p == playbacks[j]
      empty == Len(records[p.cmd].output) = 0
  IN /\ isExecuting' = IF empty /\ ~crashed THEN FALSE ELSE isExecuting
     /\ playbacks' =
          [playbacks EXCEPT ![j].pc = IF empty THEN "done" ELSE "line"]
     /\ UNCHANGED <<commandHistory, crashed>>

TypingTimer ==
  \E j \in DOMAIN playbacks :
    /\ playbacks[j].pc = "typing"
    /\ afterTyping(j)
    /\ lastOp' = [op |-> "timer", cmd |-> playbacks[j].cmd]
    /\ toast' = <<>>
    /\ clipboardWrite' = <<>>
    /\ UNCHANGED <<widget, composeVars, selectedCommand, outputLines,
                   netVars, logVars,
                   galleryVars, selectedCategory, records>>

(***************************************************************************)
(* newOutput.push(command.output[i]): newOutput is an array the invocation *)
(* created ([]), and the updater stores a copy of it ([...newOutput]) in   *)
(* the history entry, an object the invocation created as well.  The push  *)
(* reads the record and writes the local array: the catalog records are    *)
(* what they were.                                                         *)
(***************************************************************************)
recordsAfterPush_aliased(recs, k, line) ==
  [recs EXCEPT ![k].output = Append(@, line)]

recordsAfterPush(recs, k, line) == recs

(***************************************************************************)
(* The continuation a per-line delay resumes (setTimeout 300): push line i *)
(* on newOutput, set the last history entry's output to a copy of          *)
(* newOutput, i++, and after the last line setIsExecuting(false).  The     *)
(* updates of one continuation are rendered together; when the updater     *)
(* throws, the render fails, no error boundary exists, React unmounts the  *)
(* tree and the committed state is the last one there is: later updates of *)
(* the still running async function change nothing.                        *)
(***************************************************************************)
afterLineDelay(j) ==
  LET p == playbacks[j]
      cmd == records[p.cmd]
      out == Append(p.newOutput, cmd.output[p.i + 1])
      last == (p.i + 1 = Len(cmd.output))
      throws == ~crashed /\ UpdaterThrows(commandHistory)
      applied == ~crashed /\ ~throws
  IN /\ records' = recordsAfterPush(records, p.cmd, cmd.output[p.i + 1])
     /\ crashed' = (crashed \/ throws)
     /\ commandHistory' =
          IF applied THEN SetLastOutput(commandHistory, out)
                     ELSE commandHistory
     /\ isExecuting' = IF last /\ applied THEN FALSE ELSE isExecuting
     /\ playbacks' =
          [playbacks EXCEPT
             ![j] = [p EXCEPT !.i = p.i + 1,
                              !.newOutput = out,
                              !.appends = IF applied THEN @ + 1 ELSE @,
                              !.pc = IF last THEN "done" ELSE "line"]]

LineTimer ==
  \E j \in DOMAIN playbacks :
    /\ playbacks[j].pc = "line"
    /\ afterLineDelay(j)
    /\ lastOp' = [op |-> "timer", cmd |-> playbacks[j].cmd]
    /\ toast' = <<>>
    /\ clipboardWrite' = <<>>
    /\ UNCHANGED <<widget, composeVars, selectedCommand, outputLines,
                   netVars, logVars,
                   galleryVars, selectedCategory>>

(***************************************************************************)
(* The first DockerNetworks implementation: runningCommand and             *)
(* selectedOutput, and an executeCommand without a busy guard.  The card   *)
(* of every command stays clickable while a playback runs.                 *)
(***************************************************************************)
RemoveAt(s, j) == [n \in 1..(Len(s) - 1) |-> IF n < j THEN s[n] ELSE s[n + 1]]

DockerNetworks_executeCommand(k) ==
  /\ runningCommand' = <<commands[k].command>>
  /\ selectedOutput' = <<>>
  /\ netPlaybacks' = Append(netPlaybacks, [cmd |-> k, pc |-> "typing", i |-> 0])

\* Continuations an invocation has run.  Every invocation waits 500 ms and
\* then 200 ms per line, so the n-th timer of an invocation expires before
\* the n-th timer of any invocation started later.
StepsRun(p) == IF p.pc = "typing" THEN 0 ELSE p.i + 1

NetTimerDue(j) ==
  \A h \in 1..(j - 1) : StepsRun(netPlaybacks[h]) > StepsRun(netPlaybacks[j])

\* A click on a command card.
NetExecute ==
  \E k \in DOMAIN commands :
    /\ Len(netPlaybacks) < MaxNetPlaybacks
    /\ DockerNetworks_executeCommand(k)
    /\ lastOp' = [op |-> "execute", cmd |-> k]
    /\ toast' = <<>>
    /\ clipboardWrite' = <<>>
    /\ UNCHANGED <<widget, composeVars, termVars, logVars,
                   catalogVars, galleryVars>>

\* The continuation the 500 ms delay resumes: the loop test for i = 0; a
\* command without output falls through to setRunningCommand(null).
DockerNetworks_afterDelay(j) ==
  LET p == netPlaybacks[j]
      empty == Len(commands[p.cmd].output) = 0
  IN /\ runningCommand' = IF empty THEN <<>> ELSE runningCommand
     /\ netPlaybacks' =
          IF empty THEN RemoveAt(netPlaybacks, j)
                   ELSE [netPlaybacks EXCEPT ![j].pc = "line"]
     /\ UNCHANGED selectedOutput

NetTypingTimer ==
  \E j \in DOMAIN netPlaybacks :
    /\ netPlaybacks[j].pc = "typing"
    /\ NetTimerDue(j)
    /\ DockerNetworks_afterDelay(j)
    /\ lastOp' = [op |-> "timer", cmd |-> netPlaybacks[j].cmd]
    /\ toast' = <<>>
    /\ clipboardWrite' = <<>>
    /\ UNCHANGED <<widget, composeVars, termVars, logVars,
                   catalogVars, galleryVars>>

\* The continuation a 200 ms delay resumes: append line i to whatever
\* selectedOutput holds, i++, and after the last line setRunningCommand(null).
DockerNetworks_afterLineDelay(j) ==
  LET p == netPlaybacks[j]
      cmd == commands[p.cmd]
      last == (p.i + 1 = Len(cmd.output))
  IN /\ selectedOutput' = Append(selectedOutput, cmd.output[p.i + 1])
     /\ runningCommand' = IF last THEN <<>> ELSE runningCommand
     /\ netPlaybacks' =
          IF last THEN RemoveAt(netPlaybacks, j)
                  ELSE [netPlaybacks EXCEPT ![j].i = p.i + 1]

NetLineTimer ==
  \E j \in DOMAIN netPlaybacks :
    /\ netPlaybacks[j].pc = "line"
    /\ NetTimerDue(j)
    /\ DockerNetworks_afterLineDelay(j)
    /\ lastOp' = [op |-> "timer", cmd |-> netPlaybacks[j].cmd]
    /\ toast' = <<>>
    /\ clipboardWrite' = <<>>
    /\ UNCHANGED <<widget, composeVars, termVars, logVars,
                   catalogVars, galleryVars>>

NetInit ==
  /\ runningCommand = <<>>
  /\ selectedOutput = <<>>
  /\ netPlaybacks = <<>>

(***************************************************************************)
(* DockerLogs and LogViewer.  A string is a sequence of characters, so     *)
(* that toLowerCase and includes are computed as the code computes them.   *)
(***************************************************************************)
Chars == {"a", "b", "A", "B"}

toLowerCase(str) ==
  [n \in DOMAIN str |->
     IF str[n] = "A" THEN "a" ELSE IF str[n] = "B" THEN "b" ELSE str[n]]

includes(str, sub) ==
  \E n \in 0..(Len(str) - Len(sub)) : SubSeq(str, n + 1, n + Len(sub)) = sub

logCommands ==
  << [command |-> "logs", category |-> "basic",
      output |-> << [level |-> "info", message |-> <<"a", "b">>],
                    [level |-> "info", message |-> <<"B", "a">>],
                    [level |-> "error", message |-> <<"A">>] >>],
     [command |-> "logs --tail", category |-> "filter",
      output |-> << [level |-> "warning", message |-> <<"b">>],
                    [level |-> "error", message |-> <<"a", "B">>] >>],
     [command |-> "logs -f", category |-> "follow",
      output |-> << [level |-> "info", message |-> <<"A", "b">>],
                    [level |-> "debug", message |-> <<"b", "b">>] >>],
     [command |-> "logs --details", category |-> "format",
      output |-> << [level |-> "info", message |-> <<"a">>],
                    [level |-> "warning", message |-> <<"B">>] >>] >>

LogCategories == {"all", "basic", "filter", "format", "follow"}

LogLevels == {"all", "info", "warning", "error", "debug"}

SearchTerms == UNION {[1..n -> Chars] : n \in 0..MaxTermLen}

\* filteredCommands of DockerLogs: the cards that can be clicked.
LogFilteredCommands ==
  {k \in DOMAIN logCommands :
     logCategory = "all" \/ logCommands[k].category = logCategory}

\* The body of the LogViewer effect: level filter, then text filter.
FilterLogs(logs, level, term) ==
  LET byLevel(log) == level = "all" \/ log.level = level
      byText(log) ==
        term = <<>> \/ includes(toLowerCase(log.message), toLowerCase(term))
      keep(log) == byLevel(log) /\ byText(log)
  IN SelectSeq(logs, keep)

DockerLogs_executeCommand_whileIdle(k) ==
  IF isFollowing
    THEN UNCHANGED <<logSelected, isFollowing, effectPending>>
    ELSE /\ logSelected' = k
         /\ isFollowing' = (logCommands[k].category = "follow")
         /\ effectPending' = (k # logSelected)

DockerLogs_executeCommand_keepsFollowing(k) ==
  /\ logSelected' = k
  /\ isFollowing' = (isFollowing \/ logCommands[k].category = "follow")
  /\ effectPending' = (k # logSelected)

\* executeCommand of DockerLogs: select the record, follow if it is a
\* 'follow' command.  The logs prop of LogViewer changes when another
\* record is selected, which schedules the effect.
DockerLogs_executeCommand(k) ==
  /\ logSelected' = k
  /\ isFollowing' = (logCommands[k].category = "follow")
  /\ effectPending' = (k # logSelected)

\* Event handlers run once the effects of the last render have run.
LogExecute ==
  \E k \in LogFilteredCommands :
    /\ ~effectPending
    /\ DockerLogs_executeCommand(k)
    /\ lastOp' = [op |-> "execute", cmd |-> k]
    /\ toast' = <<[kind |-> "success", message |-> "Command executed!"]>>
    /\ clipboardWrite' = <<>>
    /\ UNCHANGED <<logCategory, filteredLogs, levelFilter, searchTerm>>
    /\ UNCHANGED <<widget, composeVars, termVars, netVars,
                   catalogVars, galleryVars>>

\* The 'Stop Following' button, rendered while isFollowing.
LogStopFollowing ==
  /\ ~effectPending
  /\ isFollowing
  /\ isFollowing' = FALSE
  /\ lastOp' = [op |-> "stopFollowing", cmd |-> -1]
  /\ toast' = <<>>
  /\ clipboardWrite' = <<>>
  /\ UNCHANGED <<logSelected, logCategory, filteredLogs, levelFilter,
                 searchTerm, effectPending>>
  /\ UNCHANGED <<widget, composeVars, termVars, netVars,
                 catalogVars, galleryVars>>

LogSelectCategory ==
  \E c \in LogCategories :
    /\ ~effectPending
    /\ logCategory' = c
    /\ lastOp' = [op |-> "category", cmd |-> -1]
    /\ toast' = <<>>
    /\ clipboardWrite' = <<>>
    /\ UNCHANGED <<logSelected, isFollowing, filteredLogs, levelFilter,
                   searchTerm, effectPending>>
    /\ UNCHANGED <<widget, composeVars, termVars, netVars,
                   catalogVars, galleryVars>>

LogSetLevelFilter ==
  \E l \in LogLevels :
    /\ ~effectPending
    /\ levelFilter' = l
    /\ effectPending' = (l # levelFilter)
    /\ lastOp' = [op |-> "level", cmd |-> -1]
    /\ toast' = <<>>
    /\ clipboardWrite' = <<>>
    /\ UNCHANGED <<logSelected, isFollowing, logCategory, filteredLogs,
                   searchTerm>>
    /\ UNCHANGED <<widget, composeVars, termVars, netVars,
                   catalogVars, galleryVars>>

LogSetSearchTerm ==
  \E t \in SearchTerms :
    /\ ~effectPending
    /\ searchTerm' = t
    /\ effectPending' = (t # searchTerm)
    /\ lastOp' = [op |-> "search", cmd |-> -1]
    /\ toast' = <<>>
    /\ clipboardWrite' = <<>>
    /\ UNCHANGED <<logSelected, isFollowing, logCategory, filteredLogs,
                   levelFilter>>
    /\ UNCHANGED <<widget, composeVars, termVars, netVars,
                   catalogVars, galleryVars>>

\* The useEffect of LogViewer, run after a render in which logs, levelFilter
\* or searchTerm changed.
LogFilterEffect ==
  /\ effectPending
  /\ filteredLogs' =
       FilterLogs(logCommands[logSelected].output, levelFilter, searchTerm)
  /\ effectPending' = FALSE
  /\ lastOp' = [op |-> "effect", cmd |-> -1]
  /\ toast' = <<>>
  /\ clipboardWrite' = <<>>
  /\ UNCHANGED <<logSelected, isFollowing, logCategory, levelFilter,
                 searchTerm>>
  /\ UNCHANGED <<widget, composeVars, termVars, netVars,
                 catalogVars, galleryVars>>

LogInit ==
  /\ logSelected = 1
  /\ isFollowing = FALSE
  /\ logCategory = "all"
  /\ filteredLogs = logCommands[1].output
  /\ levelFilter = "all"
  /\ searchTerm = <<>>
  /\ effectPending = FALSE

(***************************************************************************)
(* EnhancedImageGallery.  The image catalog is a sequence of distinct      *)
(* records of ImageRecords: an image whose fields hold the same letter, an *)
(* image only whose name holds 'b' (in upper case), one only whose         *)
(* description holds it and one only whose run command holds it.           *)
(***************************************************************************)
ImageRecords ==
  { [name |-> <<"a">>, description |-> <<"a", "a">>,
     runExample |-> <<"a">>, category |-> "Web Servers"],
    [name |-> <<"B">>, description |-> <<"a">>,
     runExample |-> <<"a">>, category |-> "Databases"],
    [name |-> <<"a", "a">>, description |-> <<"a", "b">>,
     runExample |-> <<"a">>, category |-> "Databases"],
    [name |-> <<"A">>, description |-> <<"A">>,
     runExample |-> <<"b">>, category |-> "Web Servers"] }

ImageCatalogs ==
  {images \in UNION {[1..n -> ImageRecords] : n \in 0..MaxCatalog} :
     \A m, n \in DOMAIN images : m # n => images[m] # images[n]}

\* categories: 'All' and the categories of the catalog.
galleryCategories(images) ==
  {"All"} \cup {images[n].category : n \in DOMAIN images}

filteredImages_termRequired(images, category, term) ==
  LET matchesCategory(image) == category = "All" \/ image.category = category
      matchesSearch(image) ==
        /\ term # <<>>
        /\ \/ includes(toLowerCase(image.name), toLowerCase(term))
           \/ includes(toLowerCase(image.description), toLowerCase(term))
      keep(image) == matchesCategory(image) /\ matchesSearch(image)
  IN SelectSeq(images, keep)

filteredImages_caseSensitive(images, category, term) ==
  LET matchesCategory(image) == category = "All" \/ image.category = category
      matchesSearch(image) ==
        \/ includes(toLowerCase(image.name), term)
        \/ includes(toLowerCase(image.description), term)
      keep(image) == matchesCategory(image) /\ matchesSearch(image)
  IN SelectSeq(images, keep)

filteredImages_nameOnly(images, category, term) ==
  LET matchesCategory(image) == category = "All" \/ image.category = category
      matchesSearch(image) ==
        includes(toLowerCase(image.name), toLowerCase(term))
      keep(image) == matchesCategory(image) /\ matchesSearch(image)
  IN SelectSeq(images, keep)

filteredImages_skipsFirst(images, category, term) ==
  LET matchesCategory(image) == category = "All" \/ image.category = category
      matchesSearch(image) ==
        \/ includes(toLowerCase(image.name), toLowerCase(term))
        \/ includes(toLowerCase(image.description), toLowerCase(term))
      keep(image) == matchesCategory(image) /\ matchesSearch(image)
      kept == SelectSeq(images, keep)
  IN IF kept = <<>> THEN kept ELSE Tail(kept)

\* filteredImages: dockerImages.filter(matchesCategory && matchesSearch),
\* the search over name and description.
filteredImages(images, category, term) ==
  LET matchesCategory(image) == category = "All" \/ image.category = category
      matchesSearch(image) ==
        \/ includes(toLowerCase(image.name), toLowerCase(term))
        \/ includes(toLowerCase(image.description), toLowerCase(term))
      keep(image) == matchesCategory(image) /\ matchesSearch(image)
  IN SelectSeq(images, keep)

\* The controls of the gallery are covered by the modal while it is open.
GallerySetSearchTerm ==
  \E t \in SearchTerms :
    /\ selectedImage = <<>>
    /\ gallerySearch' = t
    /\ shownImages' = filteredImages(dockerImages, galleryCategory, t)
    /\ lastOp' = [op |-> "search", cmd |-> -1]
    /\ toast' = <<>>
    /\ clipboardWrite' = <<>>
    /\ UNCHANGED <<dockerImages, galleryCategory, selectedImage>>
    /\ UNCHANGED <<widget, composeVars, termVars, netVars, logVars,
                   catalogVars>>

GallerySelectCategory ==
  \E c \in galleryCategories(dockerImages) :
    /\ selectedImage = <<>>
    /\ galleryCategory' = c
    /\ shownImages' = filteredImages(dockerImages, c, gallerySearch)
    /\ lastOp' = [op |-> "category", cmd |-> -1]
    /\ toast' = <<>>
    /\ clipboardWrite' = <<>>
    /\ UNCHANGED <<dockerImages, gallerySearch, selectedImage>>
    /\ UNCHANGED <<widget, composeVars, termVars, netVars, logVars,
                   catalogVars>>

\* A click on an image card opens the modal; the render that follows
\* computes filteredImages again.
GalleryOpenImage ==
  \E n \in DOMAIN shownImages :
    /\ selectedImage = <<>>
    /\ selectedImage' = <<shownImages[n].name>>
    /\ shownImages' =
         filteredImages(dockerImages, galleryCategory, gallerySearch)
    /\ lastOp' = [op |-> "open", cmd |-> n]
    /\ toast' = <<>>
    /\ clipboardWrite' = <<>>
    /\ UNCHANGED <<dockerImages, galleryCategory, gallerySearch>>
    /\ UNCHANGED <<widget, composeVars, termVars, netVars, logVars,
                   catalogVars>>

GalleryCloseModal ==
  /\ selectedImage # <<>>
  /\ selectedImage' = <<>>
  /\ shownImages' =
       filteredImages(dockerImages, galleryCategory, gallerySearch)
  /\ lastOp' = [op |-> "close", cmd |-> -1]
  /\ toast' = <<>>
  /\ clipboardWrite' = <<>>
  /\ UNCHANGED <<dockerImages, galleryCategory, gallerySearch>>
  /\ UNCHANGED <<widget, composeVars, termVars, netVars, logVars,
                 catalogVars>>

\* The download button of a card: copyCommand(`docker pull ${image.name}`).
GalleryCopy ==
  \E n \in DOMAIN shownImages, ok \in BOOLEAN :
    /\ selectedImage = <<>>
    /\ copyCommand(<<"docker pull", shownImages[n].name>>, ok)
    /\ lastOp' = [op |-> "copy", cmd |-> n]
    /\ UNCHANGED <<widget, composeVars, termVars, netVars, logVars, catalogVars,
                   galleryVars>>

\* The gallery after its first render, over the catalog images.
GalleryInitWith(images) ==
  /\ dockerImages = images
  /\ galleryCategory = "All"
  /\ gallerySearch = <<>>
  /\ selectedImage = <<>>
  /\ shownImages = filteredImages(images, "All", <<>>)

GalleryInit == \E images \in ImageCatalogs : GalleryInitWith(images)

(***************************************************************************)
(* DockerCompose, the animated implementation.  An interval is a record    *)
(* of two history fields: ticks, the ticks it has run, and alone, whether  *)
(* since it was started no other interval was active and neither           *)
(* runCompose nor stopCompose was invoked; ticks is counted only while     *)
(* alone.  Any active interval may be the next to tick.  The effect on     *)
(* animationStep runs after the render that changed it and before any      *)
(* later event is handled.                                                 *)
(***************************************************************************)
animationSteps ==
  << [name |-> "Parsing YAML", lines |-> <<1, 2>>],
     [name |-> "Creating Services", lines |-> <<8, 10, 24, 40, 53, 62>>],
     [name |-> "Setting up Networks", lines |-> <<80, 81>>],
     [name |-> "Mounting Volumes", lines |-> <<76, 77>>],
     [name |-> "Port Mapping", lines |-> <<14, 28, 64, 65>>],
     [name |-> "Complete", lines |-> <<>>] >>

\* animationSteps[animationStep] of the code, which counts from 0
StepAt(step) == animationSteps[step + 1]

Interfered(ivs) == [n \in DOMAIN ivs |-> [ticks |-> 0, alone |-> FALSE]]

runCompose_keepsStep ==
  /\ isRunning' = TRUE
  /\ intervals' =
       Append(Interfered(intervals), [ticks |-> 0, alone |-> intervals = <<>>])
  /\ UNCHANGED <<animationStep, composeEffectPending, highlightedLines>>

\* runCompose: setIsRunning(true), setAnimationStep(0), setInterval.
runCompose ==
  /\ isRunning' = TRUE
  /\ animationStep' = 0
  /\ intervals' =
       Append(Interfered(intervals), [ticks |-> 0, alone |-> intervals = <<>>])
  /\ composeEffectPending' = (animationStep # 0)
  /\ UNCHANGED highlightedLines

\* The 'docker compose up' button, disabled while isRunning.
RunCompose ==
  /\ ~composeEffectPending
  /\ ~isRunning
  /\ Len(intervals) < MaxIntervals
  /\ runCompose
  /\ lastOp' = [op |-> "run", cmd |-> -1]
  /\ toast' = <<>>
  /\ clipboardWrite' = <<>>
  /\ UNCHANGED <<widget, termVars, netVars, logVars, catalogVars,
                 galleryVars>>

stopCompose_clearsInterval ==
  /\ animationStep' = 0
  /\ isRunning' = FALSE
  /\ highlightedLines' = <<>>
  /\ intervals' = <<>>
  /\ composeEffectPending' = (animationStep # 0)

\* stopCompose: setAnimationStep(0), setIsRunning(false),
\* setHighlightedLines([]); no clearInterval.
stopCompose ==
  /\ animationStep' = 0
  /\ isRunning' = FALSE
  /\ highlightedLines' = <<>>
  /\ intervals' = Interfered(intervals)
  /\ composeEffectPending' = (animationStep # 0)

\* The 'docker compose down' button, always enabled.
StopCompose ==
  /\ ~composeEffectPending
  /\ stopCompose
  /\ lastOp' = [op |-> "stop", cmd |-> -1]
  /\ toast' = <<>>
  /\ clipboardWrite' = <<>>
  /\ UNCHANGED <<widget, termVars, netVars, logVars, catalogVars,
                 galleryVars>>

Ticked(iv) == IF iv.alone THEN [iv EXCEPT !.ticks = @ + 1] ELSE iv

tick_pastEnd(n) ==
  /\ IF animationStep > Len(animationSteps) - 1
       THEN /\ intervals' = RemoveAt(intervals, n)
            /\ isRunning' = FALSE
            /\ UNCHANGED <<animationStep, composeEffectPending>>
       ELSE /\ animationStep' = animationStep + 1
            /\ intervals' = [intervals EXCEPT ![n] = Ticked(@)]
            /\ composeEffectPending' = TRUE
            /\ UNCHANGED isRunning
  /\ UNCHANGED highlightedLines

\* The callback of interval n: the updater passed to setAnimationStep
\* clears the interval and ends the run at the last step, and otherwise
\* returns prev + 1.
tick(n) ==
  /\ IF animationStep >= Len(animationSteps) - 1
       THEN /\ intervals' = RemoveAt(intervals, n)
            /\ isRunning' = FALSE
            /\ UNCHANGED <<animationStep, composeEffectPending>>
       ELSE /\ animationStep' = animationStep + 1
            /\ intervals' = [intervals EXCEPT ![n] = Ticked(@)]
            /\ composeEffectPending' = TRUE
            /\ UNCHANGED isRunning
  /\ UNCHANGED highlightedLines

ComposeTick ==
  /\ ~composeEffectPending
  /\ \E n \in DOMAIN intervals : tick(n)
  /\ lastOp' = [op |-> "tick", cmd |-> -1]
  /\ toast' = <<>>
  /\ clipboardWrite' = <<>>
  /\ UNCHANGED <<widget, termVars, netVars, logVars, catalogVars,
                 galleryVars>>

\* useEffect on [animationStep]
ComposeEffect ==
  /\ composeEffectPending
  /\ composeEffectPending' = FALSE
  /\ highlightedLines' = IF animationStep < Len(animationSteps)
                            THEN StepAt(animationStep).lines
                            ELSE highlightedLines
  /\ lastOp' = [op |-> "effect", cmd |-> -1]
  /\ toast' = <<>>
  /\ clipboardWrite' = <<>>
  /\ UNCHANGED <<widget, animationStep, isRunning, intervals, termVars,
                 netVars, logVars, catalogVars, galleryVars>>

\* The hooks' initial values; the effect of the first render is pending.
ComposeInit ==
  /\ animationStep = 0
  /\ isRunning = FALSE
  /\ highlightedLines = <<>>
  /\ intervals = <<>>
  /\ composeEffectPending = TRUE

ClipInit ==
  /\ toast = <<>>
  /\ clipboardWrite = <<>>

CatalogInit ==
  /\ selectedCategory = "all"
  /\ records = catalog(widget)

TermInit ==
  /\ selectedCommand = 0
  /\ isExecuting = FALSE
  /\ outputLines = <<>>
  /\ commandHistory = <<>>
  /\ playbacks = <<>>
  /\ crashed = FALSE

Init ==
  /\ widget \in GuardedWidgets
  /\ lastOp = [op |-> "init", cmd |-> -1]
  /\ ClipInit
  /\ CatalogInit
  /\ TermInit
  /\ NetInit
  /\ LogInit
  /\ ComposeInit
  /\ GalleryInitWith(<<>>)

Next ==
  \/ Execute
  \/ Clear
  \/ SelectCategory
  \/ Copy
  \/ TypingTimer
  \/ LineTimer

Spec == Init /\ [][Next]_vars

(***************************************************************************)
(* The first DockerNetworks implementation, mounted alone.                 *)
(***************************************************************************)
NetSpecInit ==
  /\ widget = "DockerNetworks1"
  /\ lastOp = [op |-> "init", cmd |-> -1]
  /\ ClipInit
  /\ CatalogInit
  /\ TermInit
  /\ NetInit
  /\ LogInit
  /\ ComposeInit
  /\ GalleryInitWith(<<>>)

NetNext ==
  \/ NetExecute
  \/ NetTypingTimer
  \/ NetLineTimer

NetSpec == NetSpecInit /\ [][NetNext]_vars

(***************************************************************************)
(* DockerLogs, mounted alone.                                              *)
(***************************************************************************)
LogsSpecInit ==
  /\ widget = "DockerLogs"
  /\ lastOp = [op |-> "init", cmd |-> -1]
  /\ ClipInit
  /\ CatalogInit
  /\ TermInit
  /\ NetInit
  /\ LogInit
  /\ ComposeInit
  /\ GalleryInitWith(<<>>)

LogsNext ==
  \/ LogExecute
  \/ LogStopFollowing
  \/ LogSelectCategory
  \/ LogSetLevelFilter
  \/ LogSetSearchTerm
  \/ LogFilterEffect

LogsSpec == LogsSpecInit /\ [][LogsNext]_vars

(***************************************************************************)
(* EnhancedImageGallery, mounted alone, over every catalog of the bound.   *)
(***************************************************************************)
GallerySpecInit ==
  /\ widget = "EnhancedImageGallery"
  /\ lastOp = [op |-> "init", cmd |-> -1]
  /\ ClipInit
  /\ CatalogInit
  /\ TermInit
  /\ NetInit
  /\ LogInit
  /\ ComposeInit
  /\ GalleryInit

GalleryNext ==
  \/ GallerySetSearchTerm
  \/ GallerySelectCategory
  \/ GalleryOpenImage
  \/ GalleryCloseModal
  \/ GalleryCopy

GallerySpec == GallerySpecInit /\ [][GalleryNext]_vars

ComposeSpecInit ==
  /\ widget = "DockerCompose"
  /\ lastOp = [op |-> "init", cmd |-> -1]
  /\ ClipInit
  /\ CatalogInit
  /\ TermInit
  /\ NetInit
  /\ LogInit
  /\ ComposeInit
  /\ GalleryInit

ComposeNext ==
  \/ RunCompose
  \/ StopCompose
  \/ ComposeTick
  \/ ComposeEffect

ComposeSpec == ComposeSpecInit /\ [][ComposeNext]_vars

(***************************************************************************)
(* Claims about the guarded terminals, checked under Spec.                 *)
(***************************************************************************)
RecordOf(text) == CHOOSE k \in DOMAIN commands : commands[k].command = text

ExecuteStep == lastOp'.op = "execute"

ClearStep == lastOp'.op = "clear"

NewEntryFor(k) ==
  commandHistory' =
    Append(commandHistory, [command |-> commands[k].command, output |-> <<>>])

\* C1: an accepted execution of a record with N output lines that no clear
\* interrupted has applied exactly as many appends as its loop has run, the
\* entry it created shows exactly the first k lines of the record after the
\* k-th append, and it has applied N appends when it completes.
C1_RevealsPrefixInOrder ==
  \A j \in DOMAIN playbacks :
    LET p == playbacks[j]
        out == commands[p.cmd].output
    IN ~p.cleared =>
         /\ p.entry \in DOMAIN commandHistory
         /\ commandHistory[p.entry].command = commands[p.cmd].command
         /\ p.appends = p.i
         /\ p.appends <= Len(out)
         /\ commandHistory[p.entry].output = Prefix(out, p.appends)
         /\ (p.pc = "done" <=> p.appends = Len(out) /\ ~isExecuting)

C1_Witness ==
  \E j \in DOMAIN playbacks :
    /\ ~playbacks[j].cleared
    /\ playbacks[j].pc = "done"
    /\ playbacks[j].appends >= 3
    /\ commandHistory[playbacks[j].entry].output
         = commands[playbacks[j].cmd].output

\* C2: at most one playback is in flight; no second unfinished history
\* entry exists and every entry shows lines of its own command only, in
\* that command's order.
C2_OnePlaybackInFlight ==
  /\ Cardinality(PendingPlaybacks) <= 1
  /\ Cardinality({e \in DOMAIN commandHistory :
                    commandHistory[e].output
                      # commands[RecordOf(commandHistory[e].command)].output})
       <= 1
  /\ \A e \in DOMAIN commandHistory :
       IsPrefix(commandHistory[e].output,
                commands[RecordOf(commandHistory[e].command)].output)

C2_Witness ==
  /\ lastOp.op = "execute"
  /\ \E j \in PendingPlaybacks :
       /\ playbacks[j].cmd # lastOp.cmd
       /\ playbacks[j].pc = "line"
       /\ playbacks[j].i >= 1

\* C3: an execute request that arrives while busy changes nothing (history,
\* busy flag, selected command, pending continuations), and it is not
\* queued: a history entry is only ever added by the step of an execute
\* request that arrived while not busy, for the requested command.
C3_BusyRequestIgnored ==
  [][/\ (ExecuteStep /\ isExecuting) =>
          UNCHANGED <<commandHistory, isExecuting, selectedCommand,
                      outputLines, playbacks, crashed>>
     /\ (Len(commandHistory') > Len(commandHistory)) =>
          (ExecuteStep /\ ~isExecuting /\ NewEntryFor(lastOp'.cmd))]_vars

C3_Witness ==
  /\ widget = "Terminal"
  /\ lastOp.op = "execute"
  /\ isExecuting
  /\ selectedCommand # lastOp.cmd
  /\ Len(commandHistory) = 1

C5_ClearEmptiesHistory ==
  [][ClearStep => (commandHistory' = <<>> /\ outputLines' = <<>>)]_vars

C5_Witness ==
  /\ lastOp.op = "clear"
  /\ commandHistory = <<>>
  /\ \E j \in PendingPlaybacks :
       playbacks[j].pc = "line" /\ playbacks[j].i >= 1

\* C6: an execute request that follows a clear starts a fresh playback: it
\* creates a new, empty entry for the requested command.
C6_ExecuteAfterClearStartsFresh ==
  [][(lastOp.op = "clear" /\ ExecuteStep) => NewEntryFor(lastOp'.cmd)]_vars

\* C7: no sequence of execute, clear and timer events makes a history
\* update throw.
C7_NoErrorState == ~crashed

\* C8: an accepted execution completes: once no continuation of an
\* execution is pending any more, the busy flag is false again.
C8_ExecutionCompletes == (PendingPlaybacks = {}) => ~isExecuting

(***************************************************************************)
(* Claim about the first DockerNetworks implementation, under NetSpec.     *)
(***************************************************************************)
\* C9: overlapping executions are prevented in the network-commands
\* terminal: the displayed output is in every state a prefix of the output
\* of one single command.
C9_OutputOfOneCommand ==
  \E k \in DOMAIN commands : IsPrefix(selectedOutput, commands[k].output)

(***************************************************************************)
(* Claim about the log viewer, under LogsSpec.                             *)
(***************************************************************************)
LogExecuteStep == lastOp'.op = "execute"

\* C10 as stated: executing a log command starts its reveal from zero
\* visible entries, and the visible list grows by one entry per step.
C10_LogsRevealedIncrementally ==
  [][/\ (LogExecuteStep /\ lastOp'.cmd # logSelected) => filteredLogs' = <<>>
     /\ Len(filteredLogs') <= Len(filteredLogs) + 1]_vars

\* C10 amended: the log viewer is no playback site.  An execute request is
\* never ignored: it selects the requested record at once and leaves the
\* visible list as it is; the filter effect that follows replaces the list
\* in one step by the whole filtered entry sequence of the selected record,
\* in array order.
C10_LogsShownAtOnce ==
  [][/\ LogExecuteStep =>
          (logSelected' = lastOp'.cmd /\ filteredLogs' = filteredLogs)
     /\ lastOp'.op = "effect" =>
          filteredLogs' = FilterLogs(logCommands[logSelected'].output,
                                     levelFilter', searchTerm')]_vars

C10_Witness ==
  /\ lastOp.op = "effect"
  /\ logSelected # 1
  /\ levelFilter = "all"
  /\ searchTerm = <<>>
  /\ Len(filteredLogs) >= 2
  /\ filteredLogs = logCommands[logSelected].output

(***************************************************************************)
(* Claims about the category and text filters, under GallerySpec.          *)
(***************************************************************************)
\* The elements of list at the positions of indices, in increasing order
\* of position.
SubsequenceAt(list, indices) ==
  [m \in 1..Cardinality(indices) |->
     list[CHOOSE n \in indices : Cardinality({x \in indices : x < n}) = m - 1]]

InCategory(list, category) ==
  {n \in DOMAIN list : list[n].category = category}

\* The filters of the command widgets and of the log viewer take no input
\* from the gallery's state: what is claimed of them over all their inputs
\* is evaluated once, in the first state of a behaviour.
FirstState == lastOp.op = "init"

\* C11: with an empty search text the visible list is the whole catalog
\* under the 'all' value, and else exactly the records of the selected
\* category in catalog order, in the image gallery and in the command
\* widgets; and no step changes the catalog.
C11_CategoryFilter ==
  /\ [](/\ gallerySearch = <<>> =>
             shownImages =
               IF galleryCategory = "All"
                 THEN dockerImages
                 ELSE SubsequenceAt(dockerImages,
                                    InCategory(dockerImages, galleryCategory))
        /\ FirstState =>
             \A w \in {"DockerVolumes", "DockerNetworks2"} :
               \A c \in categories(w) :
                 LET list == AsSeq(catalog(w))
                 IN filteredCommands(list, c) =
                      IF c = "all"
                        THEN list
                        ELSE SubsequenceAt(list, InCategory(list, c)))
  /\ [][dockerImages' = dockerImages]_vars

C11_Witness ==
  /\ lastOp.op = "category"
  /\ gallerySearch = <<>>
  /\ galleryCategory = "Databases"
  /\ Len(dockerImages) = 3
  /\ shownImages = <<dockerImages[1], dockerImages[3]>>

IsSubsequence(sub, list) ==
  \E indices \in SUBSET DOMAIN list : sub = SubsequenceAt(list, indices)

SameLetter(c, d) == {c, d} \subseteq {"a", "A"} \/ {c, d} \subseteq {"b", "B"}

\* s and t differ in letter case only
SameLetters(s, t) ==
  Len(s) = Len(t) /\ \A n \in DOMAIN s : SameLetter(s[n], t[n])

SwapCase(str) ==
  [n \in DOMAIN str |->
     CASE str[n] = "a" -> "A" [] str[n] = "A" -> "a"
       [] str[n] = "b" -> "B" [] str[n] = "B" -> "b"]

SwapFields(image) ==
  [image EXCEPT !.name = SwapCase(@), !.description = SwapCase(@)]

\* C12: in the image gallery the list shown under a search term is an
\* order-preserving subsequence of the list the category alone gives; a
\* term that differs in letter case only gives the same list, and so does
\* a catalog whose names and descriptions differ in letter case only.
C12_SearchNarrowsIgnoringCase ==
  /\ IsSubsequence(shownImages,
                   filteredImages(dockerImages, galleryCategory, <<>>))
  /\ \A t \in SearchTerms :
       SameLetters(t, gallerySearch) =>
         filteredImages(dockerImages, galleryCategory, t) = shownImages
  /\ filteredImages([n \in DOMAIN dockerImages |->
                       SwapFields(dockerImages[n])],
                    galleryCategory, gallerySearch)
       = [n \in DOMAIN shownImages |-> SwapFields(shownImages[n])]

C12_Witness ==
  /\ lastOp.op = "search"
  /\ gallerySearch = <<"b">>
  /\ galleryCategory = "All"
  /\ Len(dockerImages) = 3
  /\ dockerImages[1].name = <<"B">>
  /\ shownImages = <<dockerImages[1], dockerImages[3]>>

\* term occurs in text as a substring, letter case ignored
Occurs(term, text) ==
  \E start \in 0..(Len(text) - Len(term)) :
    \A m \in DOMAIN term : SameLetter(term[m], text[start + m])

Shown(image) == \E m \in DOMAIN shownImages : shownImages[m] = image

UnderCategory(image) ==
  galleryCategory = "All" \/ image.category = galleryCategory

\* C13 as stated: a record is visible under its category whenever the
\* search term occurs, letter case ignored, in its name, in its description
\* or in its command text.
C13_MatchesNameDescriptionCommand ==
  \A n \in DOMAIN dockerImages :
    LET image == dockerImages[n]
    IN (/\ UnderCategory(image)
        /\ \/ Occurs(gallerySearch, image.name)
           \/ Occurs(gallerySearch, image.description)
           \/ Occurs(gallerySearch, image.runExample))
         => Shown(image)

\* C13 amended: the text filter of the gallery matches over the name and
\* the description only: a record is visible exactly when its category is
\* selected and the term occurs, letter case ignored, in its name or in its
\* description; the command text is not searched.  The text filter of the
\* log viewer matches over the message of a log entry.
C13_MatchesNameDescription ==
  /\ \A n \in DOMAIN dockerImages :
       LET image == dockerImages[n]
       IN Shown(image) <=>
            /\ UnderCategory(image)
            /\ \/ Occurs(gallerySearch, image.name)
               \/ Occurs(gallerySearch, image.description)
  /\ FirstState =>
       \A k \in DOMAIN logCommands : \A t \in SearchTerms :
         LET logs == logCommands[k].output
             shown == FilterLogs(logs, "all", t)
         IN /\ IsSubsequence(shown, logs)
            /\ \A n \in DOMAIN logs :
                 (\E m \in DOMAIN shown : shown[m] = logs[n])
                   <=> Occurs(t, logs[n].message)

C13_Witness ==
  /\ lastOp.op = "search"
  /\ gallerySearch = <<"b">>
  /\ galleryCategory = "All"
  /\ \E n \in DOMAIN dockerImages :
       /\ dockerImages[n].runExample = <<"b">>
       /\ ~Shown(dockerImages[n])
  /\ \E m \in DOMAIN shownImages :
       /\ shownImages[m].description = <<"a", "b">>
       /\ ~Occurs(gallerySearch, shownImages[m].name)

\* C14: filtering is idempotent: filtering the list a filter returned again,
\* with the same category (or level) and the same search text, returns that
\* list: for the list the gallery shows, for the log filter over every
\* record, level and term, and for the category filter of the command
\* widgets.
C14_FilterIdempotent ==
  /\ filteredImages(shownImages, galleryCategory, gallerySearch) = shownImages
  /\ FirstState =>
       /\ \A k \in DOMAIN logCommands :
            \A l \in LogLevels : \A t \in SearchTerms :
              LET once == FilterLogs(logCommands[k].output, l, t)
              IN FilterLogs(once, l, t) = once
       /\ \A w \in {"DockerVolumes", "DockerNetworks2"} :
            \A c \in categories(w) :
              LET once == filteredCommands(AsSeq(catalog(w)), c)
              IN filteredCommands(once, c) = once

C14_Witness ==
  /\ gallerySearch = <<"b">>
  /\ galleryCategory = "Databases"
  /\ Len(dockerImages) = 3
  /\ Len(shownImages) = 2
  /\ shownImages # filteredImages(dockerImages, "All", <<>>)

(***************************************************************************)
(* Claims about the guarded terminals, checked under Spec (continued).     *)
(***************************************************************************)
\* C15: a copy action reports success whatever the clipboard write does:
\* the step of a copy click starts one write and shows exactly one
\* notification, a success, whether the write's promise resolves or
\* rejects; and no step ever shows a failure notification.
C15_CopyAlwaysReportsSuccess ==
  /\ lastOp.op = "copy" =>
       /\ Len(clipboardWrite) = 1
       /\ Len(toast) = 1
       /\ toast[1].kind = "success"
  /\ \A n \in DOMAIN toast : toast[n].kind # "error"

C15_Witness ==
  /\ lastOp.op = "copy"
  /\ clipboardWrite # <<>>
  /\ ~clipboardWrite[1].ok
  /\ toast =
       <<[kind |-> "success", message |-> "Command copied to clipboard!"]>>

\* C16: the step that accepts an execution (a request that arrives while
\* not busy) sets the busy flag and appends exactly one entry at the end of
\* the history, with the requested command's text and an empty output; the
\* entries that were there are unchanged, and the playback it starts has
\* not revealed a line yet.
C16_AcceptAppendsEmptyEntry ==
  [][(ExecuteStep /\ ~isExecuting) =>
       /\ isExecuting'
       /\ Len(commandHistory') = Len(commandHistory) + 1
       /\ \A e \in DOMAIN commandHistory :
            commandHistory'[e] = commandHistory[e]
       /\ commandHistory'[Len(commandHistory')] =
            [command |-> commands[lastOp'.cmd].command, output |-> <<>>]
       /\ LET p == playbacks'[Len(playbacks')]
          IN /\ p.cmd = lastOp'.cmd
             /\ p.pc = "typing"
             /\ p.appends = 0]_vars

C16_Witness ==
  /\ lastOp.op = "execute"
  /\ isExecuting
  /\ Len(commandHistory) = 2
  /\ commandHistory[1].output = commands[3].output
  /\ commandHistory[2] = [command |-> commands[2].command, output |-> <<>>]
  /\ lastOp.cmd = 2

\* The step is a timer continuation of playback j, which a clear interrupted.
ClearedTimerStep(j) ==
  /\ lastOp'.op = "timer"
  /\ playbacks[j].cleared
  /\ InFlight(playbacks[j])
  /\ playbacks'[j] # playbacks[j]

C20_CatalogNeverMutated ==
  /\ DOMAIN records = DOMAIN commands
  /\ \A k \in DOMAIN commands :
       /\ records[k].command = commands[k].command
       /\ records[k].output = commands[k].output
       /\ records[k].category = catalog(widget)[k].category

C20_Witness ==
  /\ lastOp.op = "copy"
  /\ selectedCategory = "create"
  /\ commandHistory = <<>>
  /\ \E j \in DOMAIN playbacks :
       /\ playbacks[j].pc = "done"
       /\ playbacks[j].cleared
       /\ playbacks[j].appends = 3

(***************************************************************************)
(* Claim about the log viewer and the image gallery, under LogsSpec.       *)
(***************************************************************************)
\* C19: in every rendered state the list the gallery displays and the list
\* the log viewer displays are the filter applied to the current source
\* list, the current category or level and the current search text.
C19_ShownListIsCurrent ==
  /\ shownImages = filteredImages(dockerImages, galleryCategory, gallerySearch)
  /\ filteredLogs =
       FilterLogs(logCommands[logSelected].output, levelFilter, searchTerm)

(***************************************************************************)
(* Claims about the guarded terminals, checked under Spec (continued).     *)
(***************************************************************************)
\* C21: the busy flag is true in every state in which a continuation of a
\* playback (typing delay or line timer) is pending, also after a clear
\* that was invoked mid-playback: busy = false implies no pending timer.
C21_BusyWhilePending == (PendingPlaybacks # {}) => isExecuting

C21_Witness ==
  /\ lastOp.op = "clear"
  /\ isExecuting
  /\ commandHistory = <<>>
  /\ \E j \in PendingPlaybacks :
       /\ playbacks[j].cleared
       /\ playbacks[j].pc = "line"
       /\ playbacks[j].i = 1

\* The step is a timer continuation of playback j that applied a history
\* update.
AppliedUpdate(j) ==
  /\ lastOp'.op = "timer"
  /\ playbacks'[j].appends = playbacks[j].appends + 1

\* C22: a continuation writes the last entry of the history as it is when
\* the timer fires and no other entry; under every interleaving of execute,
\* clear and timer events that entry is the one the continuation's own
\* execution created: no clear came between, and the entry is at the
\* position and has the command of that execution.
C22_WritesOwnEntryOnly ==
  [][\A j \in DOMAIN playbacks :
       AppliedUpdate(j) =>
         LET p == playbacks[j]
             last == Len(commandHistory)
         IN /\ last >= 1
            /\ Len(commandHistory') = last
            /\ \A e \in 1..(last - 1) : commandHistory'[e] = commandHistory[e]
            /\ commandHistory'[last].output = playbacks'[j].newOutput
            /\ ~p.cleared
            /\ p.entry = last
            /\ commandHistory'[last].command = commands[p.cmd].command]_vars

C22_Witness ==
  /\ lastOp.op = "timer"
  /\ Len(commandHistory) = 2
  /\ commandHistory[1].output = commands[2].output
  /\ \E j \in DOMAIN playbacks :
       /\ playbacks[j].entry = 2
       /\ playbacks[j].cmd = 3
       /\ playbacks[j].appends = 2
       /\ commandHistory[2].output = <<31, 31>>

\* The entry shows the complete output of its command.
Finished(entry) ==
  entry.output = commands[RecordOf(entry.command)].output

\* C23: in every state every history entry but the last is finished, and
\* so is the last one when the busy flag is false; and no step changes a
\* finished entry that stays in the history.
C23_FinishedEntriesStay ==
  /\ [](\A e \in DOMAIN commandHistory :
          (e < Len(commandHistory) \/ ~isExecuting) =>
            Finished(commandHistory[e]))
  /\ [][\A e \in DOMAIN commandHistory \cap DOMAIN commandHistory' :
          Finished(commandHistory[e]) =>
            commandHistory'[e] = commandHistory[e]]_vars

C23_Witness ==
  /\ ~isExecuting
  /\ Len(commandHistory) = 2
  /\ commandHistory[1] = [command |-> commands[3].command,
                          output |-> commands[3].output]
  /\ commandHistory[2] = [command |-> commands[2].command,
                          output |-> commands[2].output]

RunStep == lastOp'.op = "run"
StopStep == lastOp'.op = "stop"
TickStep == lastOp'.op = "tick"

\* C24: stopCompose leaves the interval of runCompose active: a stop does
\* not change the number of active intervals, a tick advances
\* animationStep below the last step whether or not isRunning holds, and
\* the run button is enabled whenever isRunning is false, whatever
\* intervals are active, so that a second interval can be started.
C24_StopLeavesInterval ==
  /\ [][/\ StopStep => Len(intervals') = Len(intervals)
        /\ (TickStep /\ animationStep < 5) =>
             animationStep' = animationStep + 1
        /\ RunStep => Len(intervals') = Len(intervals) + 1]_vars
  /\ []((~isRunning /\ ~composeEffectPending /\ Len(intervals) = 1) =>
          ENABLED RunCompose)

C24_Witness == Len(intervals) = 2 /\ isRunning /\ lastOp.op = "run"

\* C25: animationStep is an index of animationSteps, 0..5, in every
\* reachable state, also while several intervals are active.
C25_StepInRange == animationStep \in 0..(Len(animationSteps) - 1)

C25_Witness ==
  Len(intervals) = 2 /\ animationStep = 5 /\ lastOp.op = "tick"

\* The only active interval belongs to a run that nothing has interrupted.
Uninterrupted == Len(intervals) = 1 /\ intervals[1].alone

\* C26: during an uninterrupted run animationStep equals the number of
\* ticks so far and isRunning is true; each of the first five ticks adds
\* exactly 1; the sixth tick clears the interval and sets isRunning to
\* false with animationStep still 5; and animationStep stays 5 until
\* runCompose or stopCompose is invoked.
C26_UninterruptedRun ==
  /\ [](Uninterrupted =>
          /\ isRunning
          /\ animationStep = intervals[1].ticks
          /\ animationStep <= 5)
  /\ [][(Uninterrupted /\ TickStep) =>
          IF intervals[1].ticks < 5
          THEN /\ animationStep' = animationStep + 1
               /\ Uninterrupted'
               /\ intervals'[1].ticks = intervals[1].ticks + 1
          ELSE /\ intervals' = <<>>
               /\ ~isRunning'
               /\ animationStep' = 5]_vars
  /\ [][(animationStep = 5 /\ ~RunStep /\ ~StopStep) =>
          animationStep' = 5]_vars

C26_Witness ==
  /\ intervals = <<[ticks |-> 5, alone |-> TRUE]>>
  /\ isRunning
  /\ animationStep = 5
  /\ highlightedLines = <<>>

\* C27: once stopCompose and the effect it triggers have run,
\* highlightedLines is empty, whatever animationStep was before the stop.
C27_StopClearsHighlight ==
  /\ []((lastOp.op = "stop" /\ ~composeEffectPending) =>
          highlightedLines = <<>>)
  /\ [][(lastOp.op = "stop" /\ lastOp'.op = "effect") =>
          highlightedLines' = <<>>]_vars

\* C28: in the log viewer isFollowing is true only while the selected
\* command has the category 'follow', and selecting a command of another
\* category sets isFollowing to false.
C28_FollowingOnlyFollowCommand ==
  /\ [](isFollowing => logCommands[logSelected].category = "follow")
  /\ [][(LogExecuteStep /\ logCommands[lastOp'.cmd].category # "follow") =>
          ~isFollowing']_vars

C28_Witness ==
  /\ lastOp.op = "execute"
  /\ isFollowing
  /\ logCommands[logSelected].category = "follow"

\* The command cards rendered when tab c is selected.
CardsUnder(c) ==
  LET shown == filteredCommands(AsSeq(records), c)
  IN {shown[n] : n \in DOMAIN shown}

\* C29: in the volume and network widgets every category of the catalog
\* is the id of a tab, so that every command is rendered under at least
\* one tab other than 'all'.
C29_EveryCategoryHasTab ==
  widget \in {"DockerVolumes", "DockerNetworks2"} =>
    /\ \A k \in DOMAIN records : records[k].category \in categories(widget)
    /\ \A k \in DOMAIN records :
         \E c \in categories(widget) \ {"all"} : records[k] \in CardsUnder(c)
====
